---- MODULE Spec2Model ----
(***************************************************************************)
(* Farming-records backend: the request handlers of routes.ts over the     *)
(* repository of storage.ts and the tables of the shared schema.           *)
(*                                                                         *)
(* A handler that awaits once, or whose awaits cannot be observed by any   *)
(* other handler, is one action.  The two handlers whose awaits matter     *)
(* (register: check then insert; dashboard: a fan-out of reads) are split  *)
(* at their awaits.  Every step publishes in `out` the response it sends   *)
(* (NoOut when the step sends none), with the repository methods the       *)
(* handler called.                                                         *)
(***************************************************************************)
EXTENDS Integers, Sequences, FiniteSets, Bags, TLC

\* ------------------------------------------------------- program constants
SaltRounds        == 10   \* bcrypt.hash(password, 10)
DashboardRecLimit == 5    \* recommendations.slice(0, 5)

\* ------------------------------------------------------------ input values
NoVal == "undefined"      \* a field the JSON body does not carry
Bad   == "#badtype"       \* a field of the wrong JSON type (a number for a text column)
NoUser == 0               \* req.session.userId === undefined
NoFarm == 0               \* a farm id no row has

Usernames == {"u1", "u2"}
Passwords == {"p1", "p2"}
Emails    == {"e1"}
FarmNames == {"n1"}
Locations == {"l1"}
Statuses  == {"planned", "growing"}
Scores    == {"80"}

VARIABLES users, farms, crops, weather, recs,   \* the five tables
          sessions,                             \* session store: sid -> userId
          nextId, nextSid, clock,               \* id supplies and now()
          regs,                                 \* register requests past their check
          dash,                                 \* the dashboard request in flight
          farmCreator,                          \* history: farm id -> user of the creating session
          out                                   \* the response of this step

tables == <<users, farms, crops, weather, recs>>
vars == <<users, farms, crops, weather, recs, sessions, nextId, nextSid, clock,
          regs, dash, farmCreator, out>>

\* ------------------------------------------------------------------ helpers
Without(r, f) == [k \in DOMAIN r \ {f} |-> r[k]]

NoOut == [op |-> "none"]

\* result[0] of a select that matched no row; JSON drops the key
NoRow == [id |-> 0]

\* res.status(status).json(json) of handler op, for the request of session sid
\* (whose req.session.userId was user) with path parameter or new session arg
\* and body req, after the repository calls `calls`
Reply(op, sid, user, arg, req, status, json, calls) ==
    [op |-> op, sid |-> sid, user |-> user, arg |-> arg, req |-> req,
     status |-> status, json |-> json, calls |-> calls]

NoBody == [none |-> NoVal]

ErrorBody(msg) == [error |-> msg]

InvalidInput(issues) == [error |-> "Invalid input", details |-> issues]

\* bcrypt.hash(password, 10): the stored text is never the plain text
BcryptHash(p) == "$2b$" \o ToString(SaltRounds) \o "$" \o p

\* bcrypt.compare(password, hash)
BcryptCompare(p, h) == h = BcryptHash(p)

\* the row as stored, every column included
StripUserKeepAll(user) == user

\* const { password: _, ...userResponse } = user
StripPassword(user) == Without(user, "password")

\* !req.session.userId
Unauthenticated(sid) == sessions[sid] = NoUser

AuthRequired == ErrorBody("Authentication required")

\* a primary key is unique: the insert throws otherwise
PkViolates(table, id) == \E r \in table : r.id = id

\* default(sql`gen_random_uuid()`): an id no row was ever given
FreshId == nextId

\* zod issues of a body against a schema: required text fields must be
\* present and text, optional ones text or absent
Issues(body, required, optional) ==
    {f \in required : body[f] \in {NoVal, Bad}} \cup
    {f \in optional : body[f] = Bad}

\* ------------------------------------------------------------- repository
getUser(id) == {u \in users : u.id = id}

getUserByUsername(username) == {u \in users : u.username = username}

\* users.username and users.email are unique; the insert throws otherwise
UserInsertViolates(row) ==
    \/ PkViolates(users, row.id)
    \/ \E u \in users : u.username = row.username
    \/ row.email # NoVal /\ \E u \in users : u.email = row.email

getFarmsByUserId(userId) == {f \in farms : f.userId = userId}

getFarm(id) == {f \in farms : f.id = id}

getCropsByFarmId(farmId) == {c \in crops : c.farmId = farmId}

\* a where clause that matches every row
getAllCrops(id) == crops

getCrop(id) == {c \in crops : c.id = id}

getWeatherByFarmId(farmId) == {w \in weather : w.farmId = farmId}

\* the farm's rows in the order the engine has them, as without an orderBy
getWeatherUnordered(farmId) == getWeatherByFarmId(farmId)

\* orderBy(desc(date)).limit(1): a row of the greatest date, any one of them
\* when several share it; no row when the farm has none
getLatestWeather(farmId) ==
    {w \in getWeatherByFarmId(farmId) :
        \A v \in getWeatherByFarmId(farmId) : v.date <= w.date}

getCropRecommendationsByUserId(userId) == {r \in recs : r.userId = userId}

\* ------------------------------------------------------------ session store
\* req.session.userId = uid, saved under the request's sid when the response ends
SetSession(sid, uid) ==
    [s \in DOMAIN sessions \cup {sid} |-> IF s = sid THEN uid ELSE sessions[s]]

DropSession(sid) == [s \in DOMAIN sessions \ {sid} |-> sessions[s]]

\* a client without a cookie is issued a session that carries no user id
StartSession ==
    /\ sessions' = SetSession(nextSid, NoUser)
    /\ nextSid' = nextSid + 1
    /\ out' = NoOut
    /\ UNCHANGED <<tables, nextId, clock, regs, dash, farmCreator>>

\* ------------------------------------------------------ POST /api/auth/register
UserIssues(body) == Issues(body, {"username", "password"}, {"email"})

\* up to the await of bcrypt.hash: validation, then the lookup by username
RegisterCheck(sid, body) ==
    LET user == sessions[sid]
        R(status, json, calls) ==
            Reply("register", sid, user, 0, body, status, json, calls)
    IN  /\ IF UserIssues(body) # {}
              THEN /\ out' = R(400, InvalidInput(UserIssues(body)), {})
                   /\ regs' = regs
              ELSE IF getUserByUsername(body.username) # {}
              THEN /\ out' = R(400, ErrorBody("Username already exists"),
                                {"getUserByUsername"})
                   /\ regs' = regs
              ELSE /\ regs' = regs (+) SetToBag({[sid |-> sid, user |-> user,
                                                     body |-> body]})
                   /\ out' = NoOut
        /\ UNCHANGED <<tables, sessions, nextId, nextSid, clock, dash, farmCreator>>

\* from storage.createUser to the response
RegisterInsert(r) ==
    LET row == [id |-> FreshId, username |-> r.body.username,
                password |-> BcryptHash(r.body.password), email |-> r.body.email]
        R(status, json) ==
            Reply("register", r.sid, r.user, 0, r.body, status, json,
                  {"getUserByUsername", "createUser"})
    IN  /\ regs' = regs (-) SetToBag({r})
        /\ IF UserInsertViolates(row)
              THEN /\ out' = R(500, ErrorBody("Failed to create user"))
                   /\ UNCHANGED <<users, sessions, nextId>>
              ELSE /\ users' = users \cup {row}
                   /\ nextId' = nextId + 1
                   /\ sessions' = SetSession(r.sid, row.id)
                   /\ out' = R(201, [user |-> StripPassword(row)])
        /\ UNCHANGED <<farms, crops, weather, recs, nextSid, clock, dash, farmCreator>>

\* --------------------------------------------------------- POST /api/auth/login
InvalidCredentials == [status |-> 401, json |-> ErrorBody("Invalid credentials")]

\* an answer that would tell an unknown username from a wrong password
UserNotFound == [status |-> 404, json |-> ErrorBody("User not found")]

\* if (!user) return res.status(401)...
UnknownUsername == InvalidCredentials

\* if (!isValid) return res.status(401)...
WrongPassword == InvalidCredentials

\* the checks of login before the session is touched: the rejection sent, or
\* "pass" with the user row
Credentials(username, password) ==
    IF username = NoVal \/ password = NoVal
    THEN [status |-> 400, json |-> ErrorBody("Username and password required"),
          calls |-> {}]
    ELSE IF getUserByUsername(username) = {}
    THEN [status |-> UnknownUsername.status, json |-> UnknownUsername.json,
          calls |-> {"getUserByUsername"}]
    ELSE IF ~BcryptCompare(password,
                           (CHOOSE u \in getUserByUsername(username) : TRUE).password)
    THEN [status |-> WrongPassword.status, json |-> WrongPassword.json,
          calls |-> {"getUserByUsername"}]
    ELSE [status |-> 200, json |-> CHOOSE u \in getUserByUsername(username) : TRUE,
          calls |-> {"getUserByUsername"}]

\* the identifier the request came with
AttachToRequestSession(sid) == sid

\* req.session.userId = user.id inside the regenerate callback: req.session
\* is by then the session of the identifier just issued
AttachToRegenerated(sid) == nextSid

\* regen: "ok", or the store's destroy failed and the old record is still
\* there ("kept") or not ("gone")
Login(sid, username, password, regen) ==
    LET c == Credentials(username, password)
        body == [username |-> username, password |-> password]
        R(arg, status, json) ==
            Reply("login", sid, sessions[sid], arg, body, status, json, c.calls)
    IN  /\ IF c.status # 200
              THEN /\ out' = R(0, c.status, c.json)
                   /\ UNCHANGED <<sessions, nextSid>>
              ELSE IF regen = "ok"
              THEN /\ sessions' =
                        [s \in (DOMAIN sessions \ {sid}) \cup {nextSid, AttachToRegenerated(sid)} |->
                            IF s = AttachToRegenerated(sid) THEN c.json.id
                            ELSE IF s = nextSid THEN NoUser ELSE sessions[s]]
                   /\ nextSid' = nextSid + 1
                   /\ out' = R(nextSid, 200, [user |-> StripPassword(c.json)])
              ELSE /\ sessions' = IF regen = "gone" THEN DropSession(sid) ELSE sessions
                   /\ nextSid' = nextSid
                   /\ out' = R(0, 500, ErrorBody("Login failed"))
        /\ UNCHANGED <<tables, nextId, clock, regs, dash, farmCreator>>

\* -------------------------------------------------------- POST /api/auth/logout
\* no requireAuth on this route
Logout(sid, destroy) ==
    LET R(status, json) ==
            Reply("logout", sid, sessions[sid], 0, NoBody, status, json, {})
    IN  /\ IF destroy = "ok"
              THEN /\ sessions' = DropSession(sid)
                   /\ out' = R(200, [message |-> "Logged out successfully"])
              ELSE /\ sessions' = IF destroy = "gone" THEN DropSession(sid) ELSE sessions
                   /\ out' = R(500, ErrorBody("Logout failed"))
        /\ UNCHANGED <<tables, nextId, nextSid, clock, regs, dash, farmCreator>>

\* ------------------------------------------------------------ GET /api/auth/me
Me(sid) ==
    LET user == sessions[sid]
        R(status, json, calls) == Reply("me", sid, user, 0, NoBody, status, json, calls)
    IN  /\ out' = IF Unauthenticated(sid) THEN R(401, AuthRequired, {})
                  ELSE IF getUser(user) = {}
                  THEN R(404, ErrorBody("User not found"), {"getUser"})
                  ELSE R(200, [user |-> StripPassword(CHOOSE u \in getUser(user) : TRUE)],
                         {"getUser"})
        /\ UNCHANGED <<tables, sessions, nextId, nextSid, clock, regs, dash, farmCreator>>

\* ------------------------------------------------------------------ farms
GetFarms(sid) ==
    LET user == sessions[sid]
        R(status, json, calls) ==
            Reply("getFarms", sid, user, 0, NoBody, status, json, calls)
    IN  /\ out' = IF Unauthenticated(sid) THEN R(401, AuthRequired, {})
                  ELSE R(200, [farms |-> getFarmsByUserId(user)], {"getFarmsByUserId"})
        /\ UNCHANGED <<tables, sessions, nextId, nextSid, clock, regs, dash, farmCreator>>

\* the spread the other way round: a userId of the body would win
BodyWins(body, user) == IF body.userId = NoUser THEN [body EXCEPT !.userId = user] ELSE body

\* { ...req.body, userId: req.session.userId! }: the later key wins
WithSessionUser(body, user) == [body EXCEPT !.userId = user]

FarmIssues(input) == Issues(input, {"name", "location"}, {})

\* farms.userId references users.id
FarmInsertViolates(row) ==
    \/ PkViolates(farms, row.id)
    \/ getUser(row.userId) = {}

PostFarm(sid, body) ==
    LET user == sessions[sid]
        input == WithSessionUser(body, user)
        row == [id |-> FreshId, userId |-> input.userId, name |-> input.name,
                location |-> input.location]
        R(status, json, calls) ==
            Reply("postFarm", sid, user, 0, body, status, json, calls)
    IN  /\ IF Unauthenticated(sid)
              THEN /\ out' = R(401, AuthRequired, {})
                   /\ UNCHANGED <<farms, nextId, farmCreator>>
              ELSE IF FarmIssues(input) # {}
              THEN /\ out' = R(400, InvalidInput(FarmIssues(input)), {})
                   /\ UNCHANGED <<farms, nextId, farmCreator>>
              ELSE IF FarmInsertViolates(row)
              THEN /\ out' = R(500, ErrorBody("Failed to create farm"), {"createFarm"})
                   /\ UNCHANGED <<farms, nextId, farmCreator>>
              ELSE /\ farms' = farms \cup {row}
                   /\ nextId' = nextId + 1
                   /\ farmCreator' = [i \in DOMAIN farmCreator \cup {row.id} |->
                                        IF i = row.id THEN user ELSE farmCreator[i]]
                   /\ out' = R(201, [farm |-> row], {"createFarm"})
        /\ UNCHANGED <<users, crops, weather, recs, sessions, nextSid, clock, regs, dash>>

\* a route without the ownership comparison
AnyoneOwns(farm, user) == TRUE

\* farm.userId !== req.session.userId
Owns(farm, user) == farm.userId = user

AccessDenied == ErrorBody("Access denied")

GetFarm(sid, id) ==
    LET user == sessions[sid]
        R(status, json, calls) ==
            Reply("getFarm", sid, user, id, NoBody, status, json, calls)
    IN  /\ out' = IF Unauthenticated(sid) THEN R(401, AuthRequired, {})
                  ELSE IF getFarm(id) = {}
                  THEN R(404, ErrorBody("Farm not found"), {"getFarm"})
                  ELSE IF ~Owns(CHOOSE f \in getFarm(id) : TRUE, user)
                  THEN R(403, AccessDenied, {"getFarm"})
                  ELSE R(200, [farm |-> CHOOSE f \in getFarm(id) : TRUE], {"getFarm"})
        /\ UNCHANGED <<tables, sessions, nextId, nextSid, clock, regs, dash, farmCreator>>

\* !farm || farm.userId !== req.session.userId
Denied(farmId, user) == \A f \in getFarm(farmId) : ~Owns(f, user)

\* ------------------------------------------------------------------ crops
GetCrops(sid, farmId) ==
    LET user == sessions[sid]
        R(status, json, calls) ==
            Reply("getCrops", sid, user, farmId, NoBody, status, json, calls)
    IN  /\ out' = IF Unauthenticated(sid) THEN R(401, AuthRequired, {})
                  ELSE IF Denied(farmId, user) THEN R(403, AccessDenied, {"getFarm"})
                  ELSE R(200, [crops |-> getCropsByFarmId(farmId)],
                         {"getFarm", "getCropsByFarmId"})
        /\ UNCHANGED <<tables, sessions, nextId, nextSid, clock, regs, dash, farmCreator>>

\* a body taken as it comes
CropNotParsed(input) == {}

\* insertCropSchema.safeParse({ ...req.body, farmId })
CropIssues(input) == Issues(input, {"name"}, {"status"})

\* crops.farmId references farms.id
CropInsertViolates(row) ==
    \/ PkViolates(crops, row.id)
    \/ getFarm(row.farmId) = {}

\* status: text("status").default("planned")
StatusOrDefault(status) == IF status = NoVal THEN "planned" ELSE status

PostCrop(sid, farmId, body) ==
    LET user == sessions[sid]
        row == [id |-> FreshId, farmId |-> farmId, name |-> body.name,
                status |-> StatusOrDefault(body.status)]
        R(status, json, calls) ==
            Reply("postCrop", sid, user, farmId, body, status, json, calls)
    IN  /\ IF Unauthenticated(sid)
              THEN /\ out' = R(401, AuthRequired, {})
                   /\ UNCHANGED <<crops, nextId>>
              ELSE IF Denied(farmId, user)
              THEN /\ out' = R(403, AccessDenied, {"getFarm"})
                   /\ UNCHANGED <<crops, nextId>>
              ELSE IF CropIssues(body) # {}
              THEN /\ out' = R(400, InvalidInput(CropIssues(body)), {"getFarm"})
                   /\ UNCHANGED <<crops, nextId>>
              ELSE IF CropInsertViolates(row)
              THEN /\ out' = R(500, ErrorBody("Failed to create crop"),
                                {"getFarm", "createCrop"})
                   /\ UNCHANGED <<crops, nextId>>
              ELSE /\ crops' = crops \cup {row}
                   /\ nextId' = nextId + 1
                   /\ out' = R(201, [crop |-> row], {"getFarm", "createCrop"})
        /\ UNCHANGED <<users, farms, weather, recs, sessions, nextSid, clock, regs, dash,
                       farmCreator>>

\* ----------------------------------------------------------------- weather
GetWeather(sid, farmId) ==
    LET user == sessions[sid]
        R(status, json, calls) ==
            Reply("getWeather", sid, user, farmId, NoBody, status, json, calls)
    IN  /\ out' = IF Unauthenticated(sid) THEN R(401, AuthRequired, {})
                  ELSE IF Denied(farmId, user) THEN R(403, AccessDenied, {"getFarm"})
                  ELSE R(200, [weather |-> getWeatherByFarmId(farmId)],
                         {"getFarm", "getWeatherByFarmId"})
        /\ UNCHANGED <<tables, sessions, nextId, nextSid, clock, regs, dash, farmCreator>>

\* result[0] of getLatestWeather
LatestOrNone(farmId) ==
    IF getLatestWeather(farmId) = {} THEN {NoRow} ELSE getLatestWeather(farmId)

GetLatestWeather(sid, farmId) ==
    LET user == sessions[sid]
        R(status, json, calls) ==
            Reply("getLatestWeather", sid, user, farmId, NoBody, status, json, calls)
    IN  /\ \E w \in LatestOrNone(farmId) :
              out' = IF Unauthenticated(sid) THEN R(401, AuthRequired, {})
                     ELSE IF Denied(farmId, user) THEN R(403, AccessDenied, {"getFarm"})
                     ELSE R(200, [weather |-> w], {"getFarm", "getLatestWeather"})
        /\ UNCHANGED <<tables, sessions, nextId, nextSid, clock, regs, dash, farmCreator>>

\* --------------------------------------------------------- recommendations
GetRecommendations(sid) ==
    LET user == sessions[sid]
        R(status, json, calls) ==
            Reply("getRecommendations", sid, user, 0, NoBody, status, json, calls)
    IN  /\ out' = IF Unauthenticated(sid) THEN R(401, AuthRequired, {})
                  ELSE R(200, [recommendations |-> getCropRecommendationsByUserId(user)],
                         {"getCropRecommendationsByUserId"})
        /\ UNCHANGED <<tables, sessions, nextId, nextSid, clock, regs, dash, farmCreator>>

RecIssues(input) == Issues(input, {}, {"confidence"})

\* cropRecommendations.userId references users.id, farmId (nullable) farms.id
RecInsertViolates(row) ==
    \/ PkViolates(recs, row.id)
    \/ getUser(row.userId) = {}
    \/ row.farmId # NoFarm /\ getFarm(row.farmId) = {}

\* createdAt: defaultNow(); the clock may or may not have advanced since the
\* previous insert
PostRecommendation(sid, body, tick) ==
    LET user == sessions[sid]
        input == WithSessionUser(body, user)
        row == [id |-> FreshId, userId |-> input.userId, farmId |-> input.farmId,
                confidence |-> input.confidence, createdAt |-> clock + tick]
        R(status, json, calls) ==
            Reply("postRecommendation", sid, user, 0, body, status, json, calls)
    IN  /\ IF Unauthenticated(sid)
              THEN /\ out' = R(401, AuthRequired, {})
                   /\ UNCHANGED <<recs, nextId, clock>>
              ELSE IF RecIssues(input) # {}
              THEN /\ out' = R(400, InvalidInput(RecIssues(input)), {})
                   /\ UNCHANGED <<recs, nextId, clock>>
              ELSE IF RecInsertViolates(row)
              THEN /\ out' = R(500, ErrorBody("Failed to create recommendation"),
                                {"createCropRecommendation"})
                   /\ UNCHANGED <<recs, nextId, clock>>
              ELSE /\ recs' = recs \cup {row}
                   /\ nextId' = nextId + 1
                   /\ clock' = clock + tick
                   /\ out' = R(201, [recommendation |-> row], {"createCropRecommendation"})
        /\ UNCHANGED <<users, farms, crops, weather, sessions, nextSid, regs, dash,
                       farmCreator>>

\* --------------------------------------------------------- GET /api/dashboard
NoDash == [pc |-> "idle", sid |-> 0, user |-> NoUser, farms |-> {}, rows |-> {}, top |-> {},
           stage |-> [f \in {} |-> "done"], data |-> [f \in {} |-> NoRow]]

FarmIdsOf(rows) == {f.id : f \in rows}

RECURSIVE Total(_, _)
Total(ids, n) ==
    IF ids = {} THEN 0
    ELSE LET i == CHOOSE i \in ids : TRUE IN n[i] + Total(ids \ {i}, n)

\* rows.slice(0, k) of a select without ORDER BY: the engine returns the rows
\* in an order of its choosing, so any k of them can come first
FirstRows(rows, k) ==
    {T \in SUBSET rows :
        Cardinality(T) = IF Cardinality(rows) < k THEN Cardinality(rows) ELSE k}

\* const farms = await storage.getFarmsByUserId(req.session.userId!)
DashStart(sid) ==
    LET user == sessions[sid]
    IN  /\ dash.pc = "idle"
        /\ IF Unauthenticated(sid)
              THEN /\ out' = Reply("dashboard", sid, user, 0, NoBody, 401, AuthRequired, {})
                   /\ dash' = dash
              ELSE /\ out' = NoOut
                   /\ dash' = [NoDash EXCEPT !.pc = "recs", !.sid = sid, !.user = user,
                                             !.farms = getFarmsByUserId(user)]
        /\ UNCHANGED <<tables, sessions, nextId, nextSid, clock, regs, farmCreator>>

\* const recommendations = await storage.getCropRecommendationsByUserId(...):
\* rows, of which the response keeps top, the slice(0, 5) of the order they
\* came in; then the farms.map fan-out starts
DashRecs ==
    /\ dash.pc = "recs"
    /\ \E top \in FirstRows(getCropRecommendationsByUserId(dash.user), DashboardRecLimit) :
          dash' = [dash EXCEPT !.pc = "fan", !.top = top,
                               !.rows = getCropRecommendationsByUserId(dash.user),
                               !.stage = [f \in FarmIdsOf(dash.farms) |-> "crops"],
                               !.data = [f \in FarmIdsOf(dash.farms) |->
                                            [crops |-> {}, latestWeather |-> NoRow]]]
    /\ out' = NoOut
    /\ UNCHANGED <<tables, sessions, nextId, nextSid, clock, regs, farmCreator>>

\* const crops = await storage.getCropsByFarmId(farm.id)
DashCrops(f) ==
    /\ dash.pc = "fan"
    /\ dash.stage[f] = "crops"
    /\ dash' = [dash EXCEPT !.stage[f] = "weather",
                            !.data[f].crops = getCropsByFarmId(f)]
    /\ out' = NoOut
    /\ UNCHANGED <<tables, sessions, nextId, nextSid, clock, regs, farmCreator>>

\* const latestWeather = await storage.getLatestWeather(farm.id)
DashWeather(f) ==
    /\ dash.pc = "fan"
    /\ dash.stage[f] = "weather"
    /\ \E w \in LatestOrNone(f) :
          dash' = [dash EXCEPT !.stage[f] = "done", !.data[f].latestWeather = w]
    /\ out' = NoOut
    /\ UNCHANGED <<tables, sessions, nextId, nextSid, clock, regs, farmCreator>>

\* { ...farm, crops, latestWeather }
FarmsWithData(d) ==
    {[id |-> f.id, userId |-> f.userId, name |-> f.name, location |-> f.location,
      crops |-> d.data[f.id].crops, latestWeather |-> d.data[f.id].latestWeather]
        : f \in d.farms}

Growing(cs) == {c \in cs : c.status = "growing"}

\* counts taken from the tables when the response is written
SummaryOfStore(d) ==
    [totalFarms  |-> Cardinality(getFarmsByUserId(d.user)),
     totalCrops  |-> Cardinality({c \in crops : c.farmId \in FarmIdsOf(d.farms)}),
     activeCrops |-> Cardinality(Growing({c \in crops : c.farmId \in FarmIdsOf(d.farms)}))]

\* totalFarms: farms.length; totalCrops, activeCrops: farmsWithData.reduce(...)
Summary(d) ==
    [totalFarms  |-> Cardinality(d.farms),
     totalCrops  |-> Total(FarmIdsOf(d.farms),
                           [f \in FarmIdsOf(d.farms) |-> Cardinality(d.data[f].crops)]),
     activeCrops |-> Total(FarmIdsOf(d.farms),
                           [f \in FarmIdsOf(d.farms) |->
                               Cardinality(Growing(d.data[f].crops))])]

DashCalls(d) ==
    {"getFarmsByUserId", "getCropRecommendationsByUserId"} \cup
    IF d.farms = {} THEN {} ELSE {"getCropsByFarmId", "getLatestWeather"}

\* Promise.all has settled: res.json({ farms, recommendations, summary })
DashRespond ==
    /\ dash.pc = "fan"
    /\ \A f \in DOMAIN dash.stage : dash.stage[f] = "done"
    /\ out' = Reply("dashboard", dash.sid, dash.user, 0, NoBody, 200,
                    [farms |-> FarmsWithData(dash), recommendations |-> dash.top,
                     summary |-> Summary(dash)],
                    DashCalls(dash))
    /\ dash' = NoDash
    /\ UNCHANGED <<tables, sessions, nextId, nextSid, clock, regs, farmCreator>>

\* ------------------------------------------ repository methods without a route
\* the outcome of a direct repository call
Returned(method, arg, value) ==
    Reply(method, 0, NoUser, arg, NoBody, 0, [returned |-> value], {method})

Threw(method, arg) ==
    Reply(method, 0, NoUser, arg, NoBody, 0, [threw |-> TRUE], {method})

\* crops, weather_data and crop_recommendations reference farms.id, without
\* ON DELETE: the delete of a referenced farm throws
FarmReferenced(id) ==
    \/ \E c \in crops : c.farmId = id
    \/ \E w \in weather : w.farmId = id
    \/ \E r \in recs : r.farmId = id

deleteFarm(id) ==
    /\ IF FarmReferenced(id)
          THEN /\ out' = Threw("deleteFarm", id)
               /\ farms' = farms
          ELSE /\ out' = Returned("deleteFarm", id, getFarm(id) # {})
               /\ farms' = farms \ getFarm(id)
    /\ UNCHANGED <<users, crops, weather, recs, sessions, nextId, nextSid, clock, regs,
                   dash, farmCreator>>

\* storage.getCrop(id) called directly: result[0], undefined (NoRow) when the
\* select matched nothing
callGetCrop(id) ==
    /\ \E c \in (IF getCrop(id) = {} THEN {NoRow} ELSE getCrop(id)) :
          out' = Returned("getCrop", id, c)
    /\ UNCHANGED <<tables, sessions, nextId, nextSid, clock, regs, dash, farmCreator>>

deleteCrop(id) ==
    /\ out' = Returned("deleteCrop", id, getCrop(id) # {})
    /\ crops' = crops \ getCrop(id)
    /\ UNCHANGED <<users, farms, weather, recs, sessions, nextId, nextSid, clock, regs,
                   dash, farmCreator>>

\* weather_data.farmId references farms.id
WeatherInsertViolates(row) ==
    \/ PkViolates(weather, row.id)
    \/ getFarm(row.farmId) = {}

createWeatherData(farmId, date) ==
    LET row == [id |-> FreshId, farmId |-> farmId, date |-> date]
    IN  /\ IF WeatherInsertViolates(row)
              THEN /\ out' = Threw("createWeatherData", farmId)
                   /\ UNCHANGED <<weather, nextId>>
              ELSE /\ weather' = weather \cup {row}
                   /\ nextId' = nextId + 1
                   /\ out' = Reply("createWeatherData", 0, NoUser, farmId, NoBody, 0,
                                   [returned |-> row], {"createWeatherData"})
        /\ UNCHANGED <<users, farms, crops, recs, sessions, nextSid, clock, regs, dash,
                       farmCreator>>

\* storage.getLatestWeather(farmId) called directly: result[0], undefined
\* (NoRow) when the select matched nothing
callGetLatestWeather(farmId) ==
    /\ \E w \in LatestOrNone(farmId) : out' = Returned("getLatestWeather", farmId, w)
    /\ UNCHANGED <<tables, sessions, nextId, nextSid, clock, regs, dash, farmCreator>>

deleteWeatherData(id) ==
    /\ out' = Returned("deleteWeatherData", id, \E w \in weather : w.id = id)
    /\ weather' = {w \in weather : w.id # id}
    /\ UNCHANGED <<users, farms, crops, recs, sessions, nextId, nextSid, clock, regs,
                   dash, farmCreator>>

\* ------------------------------------------------------------------- inputs
Sids == DOMAIN sessions

Outcomes == {"ok", "kept", "gone"}

UserBodies ==
    [username : Usernames \cup {NoVal}, password : {"p1", Bad},
     email : Emails \cup {NoVal, Bad}]

\* the same without the optional email
PlainUserBodies ==
    [username : Usernames \cup {NoVal}, password : {"p1", Bad}, email : {NoVal}]

\* --------------------------------------------------------------- the start
Init ==
    /\ users = {} /\ farms = {} /\ crops = {} /\ weather = {} /\ recs = {}
    /\ sessions = [s \in {} |-> NoUser]
    /\ nextId = 1 /\ nextSid = 1 /\ clock = 0
    /\ regs = EmptyBag
    /\ dash = NoDash
    /\ farmCreator = [i \in {} |-> NoUser]
    /\ out = NoOut

\* the response has been written to the client: the request is over
Send ==
    /\ out # NoOut
    /\ out' = NoOut
    /\ UNCHANGED <<tables, sessions, nextId, nextSid, clock, regs, dash, farmCreator>>

\* a handler step runs once the previous response is on the wire
Ready == out = NoOut

\* ------------------------------------- authentication: register, login, logout, me
AuthSids    == 3   \* session identifiers issued
AuthPending == 1   \* register requests between their check and their insert

AuthCaps == nextSid' <= AuthSids + 1 /\ BagCardinality(regs') <= AuthPending

NextAuth ==
    \/ Send
    \/ Ready /\ StartSession /\ AuthCaps
    \/ Ready /\ \E sid \in Sids, body \in PlainUserBodies :
                   RegisterCheck(sid, body) /\ AuthCaps
    \/ Ready /\ \E r \in BagToSet(regs) : RegisterInsert(r)
    \/ Ready /\ \E sid \in Sids, u \in Usernames \cup {NoVal}, p \in Passwords \cup {NoVal},
                   regen \in Outcomes : Login(sid, u, p, regen) /\ AuthCaps
    \/ Ready /\ \E sid \in Sids, destroy \in Outcomes : Logout(sid, destroy)
    \/ Ready /\ \E sid \in Sids : Me(sid)

SpecAuth == Init /\ [][NextAuth]_vars

\* ------------------------------------------------ concurrent registrations
RegSids    == 2   \* session identifiers issued
RegPending == 2   \* register requests between their check and their insert

RegCaps == nextSid' <= RegSids + 1 /\ BagCardinality(regs') <= RegPending

NextRegister ==
    \/ Send
    \/ Ready /\ StartSession /\ RegCaps
    \/ Ready /\ \E sid \in Sids, body \in UserBodies : RegisterCheck(sid, body) /\ RegCaps
    \/ Ready /\ \E r \in BagToSet(regs) : RegisterInsert(r)

SpecRegister == Init /\ [][NextRegister]_vars

\* ------------------------------------------------- farms and their owners
FarmSids    == 2   \* session identifiers issued
FarmPending == 1   \* register requests between their check and their insert
FarmRows    == 4   \* rows inserted, users included

NewUserBodies == [username : Usernames, password : {"p1"}, email : {NoVal}]

\* ids a request can name: those issued, and the next, which no row has
NamedIds == 1..nextId

FarmBodies ==
    [name : FarmNames \cup {NoVal}, location : Locations \cup {Bad}, userId : 0..2]

FarmCaps ==
    /\ nextSid' <= FarmSids + 1
    /\ BagCardinality(regs') <= FarmPending
    /\ nextId' <= FarmRows + 1

NextFarm ==
    \/ Send
    \/ Ready /\ StartSession /\ FarmCaps
    \/ Ready /\ \E sid \in Sids, body \in NewUserBodies :
                   RegisterCheck(sid, body) /\ FarmCaps
    \/ Ready /\ \E r \in BagToSet(regs) : RegisterInsert(r) /\ FarmCaps
    \/ Ready /\ \E sid \in Sids : GetFarms(sid)
    \/ Ready /\ \E sid \in Sids, body \in FarmBodies : PostFarm(sid, body) /\ FarmCaps
    \/ Ready /\ \E sid \in Sids, id \in NamedIds : GetFarm(sid, id)
    \/ Ready /\ \E id \in NamedIds : deleteFarm(id)

SpecFarm == Init /\ [][NextFarm]_vars

\* ---------------------------------------------------- two registered users
\* The state after u1 and u2 registered, each from a session of its own, and
\* both responses were sent (SpecFarm reaches it from Init).
TwoUsers ==
    /\ users = {[id |-> 1, username |-> "u1", password |-> BcryptHash("p1"),
                 email |-> NoVal],
                [id |-> 2, username |-> "u2", password |-> BcryptHash("p1"),
                 email |-> NoVal]}
    /\ sessions = [s \in {1, 2} |-> s]
    /\ nextId = 3 /\ nextSid = 3

InitTwoUsers ==
    /\ TwoUsers
    /\ farms = {} /\ crops = {} /\ weather = {} /\ recs = {}
    /\ clock = 0
    /\ regs = EmptyBag
    /\ dash = NoDash
    /\ farmCreator = [i \in {} |-> NoUser]
    /\ out = NoOut

\* --------------------------------------- the farm-scoped routes of two users
ScopedRows == 3   \* rows inserted after the two users

OwnFarmBodies == [name : FarmNames, location : Locations, userId : {NoUser}]

CropBodies == [name : FarmNames \cup {NoVal}, status : {"growing", NoVal, Bad}]

Dates == 1..2

ScopedCaps == nextId' <= 2 + ScopedRows + 1

NextScoped ==
    \/ Send
    \/ Ready /\ \E sid \in Sids, body \in OwnFarmBodies : PostFarm(sid, body) /\ ScopedCaps
    \/ Ready /\ \E sid \in Sids, id \in NamedIds : GetFarm(sid, id)
    \/ Ready /\ \E sid \in Sids, id \in NamedIds : GetCrops(sid, id)
    \/ Ready /\ \E sid \in Sids, id \in NamedIds, body \in CropBodies :
                   PostCrop(sid, id, body) /\ ScopedCaps
    \/ Ready /\ \E sid \in Sids, id \in NamedIds : GetWeather(sid, id)
    \/ Ready /\ \E sid \in Sids, id \in NamedIds : GetLatestWeather(sid, id)
    \/ Ready /\ \E id \in NamedIds, date \in Dates :
                   createWeatherData(id, date) /\ ScopedCaps
    \/ Ready /\ \E id \in NamedIds : deleteCrop(id)
    \/ Ready /\ \E id \in NamedIds : deleteWeatherData(id)

SpecScoped == InitTwoUsers /\ [][NextScoped]_vars

\* --------------------------- the routes behind requireAuth, and the logout route
GateSids == 1   \* session identifiers issued after the two users'
GateRows == 2   \* rows inserted after the two users

GateFarmBodies == [name : FarmNames \cup {NoVal}, location : Locations, userId : {NoUser}]

GateCropBodies == [name : FarmNames, status : {NoVal, Bad}]

RecBodies == [farmId : {NoFarm}, confidence : Scores \cup {Bad}, userId : {NoUser}]

GateCaps ==
    /\ nextSid' <= 2 + GateSids + 1
    /\ nextId' <= 2 + GateRows + 1

NextGate ==
    \/ Send
    \/ Ready /\ StartSession /\ GateCaps
    \/ Ready /\ \E sid \in Sids, destroy \in Outcomes : Logout(sid, destroy)
    \/ Ready /\ \E sid \in Sids : Me(sid)
    \/ Ready /\ \E sid \in Sids : GetFarms(sid)
    \/ Ready /\ \E sid \in Sids, body \in GateFarmBodies : PostFarm(sid, body) /\ GateCaps
    \/ Ready /\ \E sid \in Sids, id \in NamedIds : GetFarm(sid, id)
    \/ Ready /\ \E sid \in Sids, id \in NamedIds : GetCrops(sid, id)
    \/ Ready /\ \E sid \in Sids, id \in NamedIds, body \in GateCropBodies :
                   PostCrop(sid, id, body) /\ GateCaps
    \/ Ready /\ \E sid \in Sids, id \in NamedIds : GetWeather(sid, id)
    \/ Ready /\ \E sid \in Sids, id \in NamedIds : GetLatestWeather(sid, id)
    \/ Ready /\ \E sid \in Sids : GetRecommendations(sid)
    \/ Ready /\ \E sid \in Sids, body \in RecBodies, tick \in 0..1 :
                   PostRecommendation(sid, body, tick) /\ GateCaps
    \/ Ready /\ \E sid \in Sids : DashStart(sid)
    \/ Ready /\ DashRecs
    \/ Ready /\ \E f \in DOMAIN dash.stage : DashCrops(f)
    \/ Ready /\ \E f \in DOMAIN dash.stage : DashWeather(f)
    \/ Ready /\ DashRespond

SpecGate == InitTwoUsers /\ [][NextGate]_vars

\* ---------------------------------------------------------- the create routes
CreateSids    == 1   \* session identifiers issued after the two users'
CreatePending == 1   \* register requests between their check and their insert
CreateRows    == 2   \* rows inserted after the two users

CreateUserBodies ==
    [username : {"u1", "u3"}, password : {"p1", Bad}, email : {NoVal, Bad}]

CreateFarmBodies ==
    [name : FarmNames \cup {NoVal}, location : Locations \cup {Bad}, userId : {NoUser}]

CreateCropBodies == [name : FarmNames \cup {NoVal}, status : {NoVal, Bad}]

CreateRecBodies ==
    [farmId : {NoFarm}, confidence : {NoVal, Bad}, userId : {NoUser}]

CreateCaps ==
    /\ nextSid' <= 2 + CreateSids + 1
    /\ BagCardinality(regs') <= CreatePending
    /\ nextId' <= 2 + CreateRows + 1

NextCreate ==
    \/ Send
    \/ Ready /\ StartSession /\ CreateCaps
    \/ Ready /\ \E sid \in Sids, body \in CreateUserBodies :
                   RegisterCheck(sid, body) /\ CreateCaps
    \/ Ready /\ \E r \in BagToSet(regs) : RegisterInsert(r) /\ CreateCaps
    \/ Ready /\ \E sid \in Sids, body \in CreateFarmBodies :
                   PostFarm(sid, body) /\ CreateCaps
    \/ Ready /\ \E sid \in Sids, id \in NamedIds, body \in CreateCropBodies :
                   PostCrop(sid, id, body) /\ CreateCaps
    \/ Ready /\ \E sid \in Sids, body \in CreateRecBodies :
                   PostRecommendation(sid, body, 1) /\ CreateCaps

SpecCreate == InitTwoUsers /\ [][NextCreate]_vars

\* ------------------------------------- the dashboard beside writes to its farms
DashRows == 3   \* rows inserted after the two users

DashCropBodies == [name : FarmNames, status : Statuses]

DashCaps == nextId' <= 2 + DashRows + 1

NextDash ==
    \/ Send
    \/ Ready /\ \E sid \in Sids, body \in OwnFarmBodies : PostFarm(sid, body) /\ DashCaps
    \/ Ready /\ \E sid \in Sids, id \in NamedIds, body \in DashCropBodies :
                   PostCrop(sid, id, body) /\ DashCaps
    \/ Ready /\ \E id \in NamedIds : createWeatherData(id, 1) /\ DashCaps
    \/ Ready /\ \E id \in NamedIds : deleteFarm(id)
    \/ Ready /\ \E id \in NamedIds : deleteCrop(id)
    \/ Ready /\ \E sid \in Sids : DashStart(sid)
    \/ Ready /\ DashRecs
    \/ Ready /\ \E f \in DOMAIN dash.stage : DashCrops(f)
    \/ Ready /\ \E f \in DOMAIN dash.stage : DashWeather(f)
    \/ Ready /\ DashRespond

SpecDash == InitTwoUsers /\ [][NextDash]_vars

\* ------------------------------------ the dashboard's list of recommendations
RecRows == 6   \* rows inserted after the two users

PlainRecBodies == [farmId : {NoFarm}, confidence : Scores, userId : {NoUser}]

RecCaps == nextId' <= 2 + RecRows + 1

\* no farm is created here, so the fan-out of the dashboard is empty
NextRecs ==
    \/ Send
    \/ Ready /\ \E sid \in Sids, body \in PlainRecBodies, tick \in 0..1 :
                   PostRecommendation(sid, body, tick) /\ RecCaps
    \/ Ready /\ \E sid \in Sids : GetRecommendations(sid)
    \/ Ready /\ \E sid \in Sids : DashStart(sid)
    \/ Ready /\ DashRecs
    \/ Ready /\ DashRespond

SpecRecs == InitTwoUsers /\ [][NextRecs]_vars

\* ------------------------------------ the weather observations of the farms
WeatherRows == 5   \* rows inserted after the two users

WeatherDates == 1..3

WeatherCaps == nextId' <= 2 + WeatherRows + 1

NextWeather ==
    \/ Send
    \/ Ready /\ \E sid \in Sids, body \in OwnFarmBodies : PostFarm(sid, body) /\ WeatherCaps
    \/ Ready /\ \E id \in NamedIds, date \in WeatherDates :
                   createWeatherData(id, date) /\ WeatherCaps
    \/ Ready /\ \E id \in NamedIds : deleteWeatherData(id)
    \/ Ready /\ \E id \in NamedIds : callGetLatestWeather(id)

SpecWeather == InitTwoUsers /\ [][NextWeather]_vars

\* --------------------------------------------- the crops and their deletion
CropRows == 4   \* rows inserted after the two users

CropCaps == nextId' <= 2 + CropRows + 1

NextCrop ==
    \/ Send
    \/ Ready /\ \E sid \in Sids, body \in OwnFarmBodies : PostFarm(sid, body) /\ CropCaps
    \/ Ready /\ \E sid \in Sids, id \in NamedIds, body \in DashCropBodies :
                   PostCrop(sid, id, body) /\ CropCaps
    \/ Ready /\ \E id \in NamedIds : callGetCrop(id)
    \/ Ready /\ \E id \in NamedIds : deleteCrop(id)

SpecCrop == InitTwoUsers /\ [][NextCrop]_vars

\* ------------------------------------------------------------------ claims
UsernameTaken(username) == getUserByUsername(username) # {}

\* C3: registering a username that is already taken, in any interleaving of
\* the two register requests, leaves one row of that username and answers
\* the other attempt with 400 "Username already exists" (the username being
\* the only conflict: no row stores the request's email).
C3_DuplicateUsernameIs400 ==
    /\ \A a \in users, b \in users : a.username = b.username => a = b
    /\ (/\ out.op = "register"
        /\ UserIssues(out.req) = {}
        /\ out.status # 201
        /\ UsernameTaken(out.req.username)
        /\ \A u \in users : u.email # out.req.email \/ out.req.email = NoVal)
       => (out.status = 400 /\ out.json = ErrorBody("Username already exists"))

\* a login request with both fields present that the credential check rejects
LoginRejected(o) ==
    /\ o.op = "login"
    /\ o.req.username # NoVal /\ o.req.password # NoVal
    /\ \A u \in getUserByUsername(o.req.username) :
          ~BcryptCompare(o.req.password, u.password)

C6_LoginRegeneratesFirst ==
    [][/\ (out'.op = "login" /\ out'.status = 200) =>
            /\ out'.arg \notin DOMAIN sessions
            /\ out'.arg >= nextSid
            /\ out'.arg \in DOMAIN sessions'
            /\ sessions'[out'.arg] = out'.json.user.id
            /\ out'.sid \notin DOMAIN sessions'
            /\ \A s \in DOMAIN sessions' \ {out'.arg} :
                  s \in DOMAIN sessions /\ sessions'[s] = sessions[s]
       /\ (out'.op = "login" /\ out'.status # 200) =>
            /\ \A s \in DOMAIN sessions' :
                  s \in DOMAIN sessions /\ sessions'[s] = sessions[s]
       /\ (out'.op = "login" /\ Credentials(out'.req.username, out'.req.password).status = 200
             /\ out'.status # 200) => out'.status = 500]_vars

\* a login from a session without a user id succeeded
C6_Witness ==
    /\ out.op = "login" /\ out.status = 200
    /\ out.user = NoUser
    /\ out.arg # out.sid
    /\ sessions[out.arg] = out.json.user.id

\* the JSON carries no password field, at the top or in its user
NoPasswordField(json) ==
    /\ "password" \notin DOMAIN json
    /\ "user" \in DOMAIN json => "password" \notin DOMAIN json.user

\* C8: no response of register, login or me carries a password field,
\* whatever its status, and a user row stores the hash of the submitted
\* password, never the password.
C8_PasswordNeverReturned ==
    /\ out.op \in {"register", "login", "me"} => NoPasswordField(out.json)
    /\ \A u \in users : u.password \notin Passwords
    /\ (out.op = "register" /\ out.status = 201) =>
          \E u \in users :
              /\ u.id = out.json.user.id
              /\ u.password # out.req.password
              /\ BcryptCompare(out.req.password, u.password)

\* a register answered 201 with the user
C8_Witness ==
    /\ out.op = "register" /\ out.status = 201
    /\ \E u \in users : u.id = out.json.user.id /\ u.username = out.json.user.username

FarmScoped == {"getFarm", "getCrops", "postCrop", "getWeather", "getLatestWeather"}

\* the request names a farm that exists and that another user owns
ForeignFarm(o) ==
    /\ o.op \in FarmScoped
    /\ o.user # NoUser
    /\ \E f \in getFarm(o.arg) : f.userId # o.user

\* C1: a farm-scoped request of user B for an existing farm of user A # B is
\* answered 403 with the access-denied body alone (no farm, crop or weather
\* data), after the farm lookup only, and no table changes (no crop row is
\* inserted).
C1_ForeignFarmDenied ==
    [][ForeignFarm(out') =>
          /\ out'.status = 403
          /\ out'.json = AccessDenied
          /\ out'.calls = {"getFarm"}
          /\ UNCHANGED tables]_vars

\* a crop was posted to another user's farm, which has crops and weather
C1_Witness ==
    /\ ForeignFarm(out)
    /\ out.op = "postCrop" /\ CropIssues(out.req) = {}
    /\ getCropsByFarmId(out.arg) # {}
    /\ getWeatherByFarmId(out.arg) # {}
    /\ out.status = 403

\* C5: a farm created through POST /farms has an id no farm was ever stored
\* under, and is stored with the user id of the requesting session, whatever
\* userId the body carried; so every farm row is owned by the user whose
\* session created it.
C5_FarmFreshAndOwned ==
    /\ [](\A f \in farms :
             f.id \in DOMAIN farmCreator /\ f.userId = farmCreator[f.id])
    /\ [][(out'.op = "postFarm" /\ out'.status = 201) =>
             /\ out'.json.farm.id \notin DOMAIN farmCreator
             /\ \A f \in farms : f.id # out'.json.farm.id
             /\ out'.json.farm.userId = out'.user
             /\ farms' = farms \cup {out'.json.farm}]_vars

\* a farm was created by a body that named another user
C5_Witness ==
    /\ out.op = "postFarm" /\ out.status = 201
    /\ out.req.userId \notin {NoUser, out.user}
    /\ getUser(out.req.userId) # {}
    /\ out.json.farm \in farms

SessionOps ==
    {"logout", "me", "getFarms", "postFarm", "getFarm", "getCrops", "postCrop",
     "getWeather", "getLatestWeather", "getRecommendations", "postRecommendation",
     "dashboard"}

\* C2: on every route that requires a session, a request whose session
\* carries no user id is answered 401 before anything else runs: no
\* repository method is called, and the session store and the tables are as
\* they were.
C2_NoSessionRejectedFirst ==
    [][(out'.op \in SessionOps /\ out'.user = NoUser) =>
          /\ out'.status = 401
          /\ out'.calls = {}
          /\ UNCHANGED <<tables, sessions>>]_vars

CreateOps == {"register", "postFarm", "postCrop", "postRecommendation"}

\* the issues of the request's body against the schema of its route (the
\* session's userId and the path's farmId are never among them)
SchemaIssues(o) ==
    CASE o.op = "register" -> Issues(o.req, {"username", "password"}, {"email"})
      [] o.op = "postFarm" -> Issues(o.req, {"name", "location"}, {})
      [] o.op = "postCrop" -> Issues(o.req, {"name"}, {"status"})
      [] o.op = "postRecommendation" -> Issues(o.req, {}, {"confidence"})

InvalidCreate(o) == o.op \in CreateOps /\ SchemaIssues(o) # {}

\* the checks a create route runs before it parses the body: none on
\* register, the session elsewhere, and the farm's owner on the crops route
PassedGates(o) ==
    /\ o.op # "register" => o.user # NoUser
    /\ o.op = "postCrop" => \E f \in getFarm(o.arg) : f.userId = o.user

\* C7, as claimed: on every create route an invalid body (of a request that
\* got past the session and ownership gates) is answered 400 with the
\* issues, no repository method is called and nothing is stored.
C7_InvalidBodyNeverReachesRepository ==
    [][(InvalidCreate(out') /\ PassedGates(out')) =>
          /\ out'.status = 400
          /\ out'.json = InvalidInput(SchemaIssues(out'))
          /\ out'.calls = {}
          /\ UNCHANGED <<tables, sessions>>]_vars

\* C7, amended: an invalid body never changes the store and no insert is
\* attempted; once the request passed the session check (and, on the crops
\* route, the ownership check, whose getFarm lookup comes before the
\* validation) it is answered 400 with the issues, and that lookup is the
\* only repository call made.
C7_InvalidBodyNeverStored ==
    [][InvalidCreate(out') =>
          /\ UNCHANGED <<tables, sessions, nextId>>
          /\ out'.calls = IF out'.op = "postCrop" /\ out'.user # NoUser
                          THEN {"getFarm"} ELSE {}
          /\ out'.status = IF PassedGates(out') THEN 400
                           ELSE IF out'.user = NoUser THEN 401 ELSE 403
          /\ PassedGates(out') => out'.json = InvalidInput(SchemaIssues(out'))]_vars

\* the owner of a farm posted it a crop with an invalid body
C7_Witness ==
    /\ InvalidCreate(out) /\ out.op = "postCrop"
    /\ PassedGates(out)
    /\ out.status = 400
    /\ out.calls = {"getFarm"}

DashboardSent(o) == o.op = "dashboard" /\ o.status = 200

CropsListed(fs) == Total(FarmIdsOf(fs),
                         [i \in FarmIdsOf(fs) |->
                             Cardinality((CHOOSE f \in fs : f.id = i).crops)])

GrowingListed(fs) == Total(FarmIdsOf(fs),
                           [i \in FarmIdsOf(fs) |->
                               Cardinality({c \in (CHOOSE f \in fs : f.id = i).crops :
                                               c.status = "growing"})])

\* C9: in every dashboard response, whatever was written while it was read,
\* totalFarms is the number of farms listed, totalCrops the sum of the
\* lengths of their crop lists, activeCrops the number of listed crops whose
\* status is "growing", and every farm listed belongs to the session's user.
C9_SummaryMatchesResponse ==
    DashboardSent(out) =>
        /\ out.json.summary.totalFarms = Cardinality(out.json.farms)
        /\ out.json.summary.totalCrops = CropsListed(out.json.farms)
        /\ out.json.summary.activeCrops = GrowingListed(out.json.farms)
        /\ \A f \in out.json.farms : f.userId = out.user
        /\ Cardinality(FarmIdsOf(out.json.farms)) = Cardinality(out.json.farms)

\* a dashboard whose crop lists are no longer what the table holds
C9_Witness ==
    /\ DashboardSent(out)
    /\ out.json.summary.activeCrops > 0
    /\ out.json.summary.totalCrops #
          Cardinality({c \in crops : c.farmId \in FarmIdsOf(out.json.farms)})
    /\ \E f \in farms : f.userId # out.user

\* list holds the latest k of rows
LatestOf(list, rows, k) ==
    /\ list \subseteq rows
    /\ Cardinality(list) = IF Cardinality(rows) < k THEN Cardinality(rows) ELSE k
    /\ \A a \in list, b \in rows \ list : b.createdAt <= a.createdAt

\* C10: the recommendations of a dashboard response are the five latest
\* created of the user's recommendations as the handler read them (all of
\* them when fewer than five): none left out is later than one listed.
C10_LatestFiveRecommendations ==
    [][DashboardSent(out') =>
          /\ dash.rows = {r \in dash.rows : r.userId = out'.user}
          /\ LatestOf(out'.json.recommendations, dash.rows, DashboardRecLimit)]_vars

LatestCalled(o) == o.op = "getLatestWeather" /\ o.calls = {"getLatestWeather"}

\* C11: whatever createWeatherData and deleteWeatherData calls came before and
\* in whatever order the rows were inserted, getLatestWeather(farmId) returns
\* without throwing; it returns the not-found marker exactly when the farm
\* has no stored observation, and otherwise a stored observation of that farm
\* that no observation of the farm is dated after.
C11_LatestWeatherIsMaxDate ==
    LatestCalled(out) =>
        /\ DOMAIN out.json = {"returned"}
        /\ (out.json.returned = NoRow) <=> ~(\E w \in weather : w.farmId = out.arg)
        /\ out.json.returned # NoRow =>
              /\ out.json.returned \in weather
              /\ out.json.returned.farmId = out.arg
              /\ \A v \in weather :
                    v.farmId = out.arg => v.date <= out.json.returned.date

\* the farm holds three observations inserted with the latest date in the
\* middle, after an observation was deleted, and the call returned the latest
C11_Witness ==
    /\ LatestCalled(out)
    /\ out.json.returned # NoRow
    /\ \E a \in weather, b \in weather :
          /\ a.farmId = out.arg /\ b.farmId = out.arg
          /\ a.id < out.json.returned.id /\ out.json.returned.id < b.id
          /\ a.date < b.date /\ b.date < out.json.returned.date
    /\ \E i \in 3..(nextId - 1) : \A r \in farms \cup weather : r.id # i

CropStored(id) == \E c \in crops : c.id = id

\* C12: deleteCrop(id) returns true exactly when a crop row of that id was
\* stored, removes that row and no other, and changes nothing else; an id
\* once absent stays absent, so a second deleteCrop of the same id returns
\* false and leaves the store as it was, and getCrop(id) returns the
\* not-found marker from the first call on.
C12_DeleteCropReportsRemoval ==
    /\ [](\A c \in crops : c.id < nextId)
    /\ []((out.op = "deleteCrop" /\ out.calls = {"deleteCrop"}) => ~CropStored(out.arg))
    /\ []((out.op = "getCrop" /\ out.calls = {"getCrop"}) =>
             /\ DOMAIN out.json = {"returned"}
             /\ (out.json.returned = NoRow) <=> ~CropStored(out.arg)
             /\ out.json.returned # NoRow =>
                   out.json.returned \in crops /\ out.json.returned.id = out.arg)
    /\ [][/\ \A i \in 1..(nextId - 1) :
                ~CropStored(i) => \A c \in crops' : c.id # i
          /\ (out'.op = "deleteCrop" /\ out'.calls = {"deleteCrop"}) =>
                /\ out'.json = [returned |-> CropStored(out'.arg)]
                /\ crops' = {c \in crops : c.id # out'.arg}
                /\ ~CropStored(out'.arg) => crops' = crops
                /\ UNCHANGED <<users, farms, weather, recs, sessions>>]_vars

\* the second deleteCrop of a crop's id, answered false, beside a crop of
\* the same farm that is still stored
C12_Witness ==
    /\ out.op = "deleteCrop" /\ out.calls = {"deleteCrop"}
    /\ out.json.returned = FALSE
    /\ out.arg \in 3..(nextId - 1)
    /\ \A r \in farms \cup crops : r.id # out.arg
    /\ crops # {}

====
